---- MODULE Spec2Model ----
(***************************************************************************)
(* Model of the backtest engine of the trading-strategies dashboard:       *)
(* SupportResistanceStrategy.run (strategies/support_resistance.py) and    *)
(* BaseStrategy._calculate_metrics (strategies/base.py).                   *)
(*                                                                         *)
(* Floating point values are modelled as exact rationals with a NaN, so    *)
(* that pandas' missing-value propagation (pct_change, diff, shift,        *)
(* fillna, ffill) is computed as the code computes it.  Bars are numbered  *)
(* 1..n; the timestamp of bar i is i (a strictly increasing index).        *)
(***************************************************************************)
EXTENDS Integers, Sequences, FiniteSets, TLC

(***************************************************************************)
(* Bounds of the model.                                                    *)
(***************************************************************************)
\* longest price series explored
MaxLen == 3
\* invocations of the cached run explored in CacheSpec
MaxCalls == 3
\* most parameter sets configured for the strategy in the dashboard
MaxSets == 3

(***************************************************************************)
(* Program constants.                                                      *)
(***************************************************************************)
\* fee_decimal = fee_percent / 100
PercentDen == 100
\* max_value of the "Trading Fee (%)" input
MaxFeePercent == 10
\* trading days per year
TradingDays == 252

(***************************************************************************)
(* float64 as exact rationals n/d (d > 0, lowest terms) plus NaN and the   *)
(* signed infinity a division by zero yields, with IEEE 754 arithmetic on  *)
(* them.                                                                   *)
(***************************************************************************)
Abs(x) == IF x < 0 THEN -x ELSE x

Sgn(x) == IF x < 0 THEN -1 ELSE IF x > 0 THEN 1 ELSE 0

RECURSIVE GCD(_, _)
GCD(a, b) == IF b = 0 THEN a ELSE GCD(b, a % b)

NaN == [k |-> "nan", n |-> 0, d |-> 1]

Inf(s) == [k |-> "inf", n |-> s, d |-> 1]

Num(n, d) ==
    LET g == GCD(Abs(n), d)
    IN  [k |-> "num", n |-> n \div g, d |-> d \div g]

IntVal(i) == Num(i, 1)

IsNum(a) == a.k = "num"

IsNaN(a) == a.k = "nan"

IsInf(a) == a.k = "inf"

\* the sign of a value that is not NaN
SignOf(a) == IF IsInf(a) THEN a.n ELSE Sgn(a.n)

\* sums, products and quotients cancel common factors before multiplying
FAdd(a, b) ==
    IF IsNum(a) /\ IsNum(b)
    THEN LET g == GCD(a.d, b.d)
         IN  Num(a.n * (b.d \div g) + b.n * (a.d \div g), (a.d \div g) * b.d)
    ELSE IF IsNaN(a) \/ IsNaN(b) THEN NaN
    ELSE IF IsInf(a) /\ IsInf(b) THEN (IF a.n = b.n THEN a ELSE NaN)
    ELSE IF IsInf(a) THEN a
    ELSE b

FNeg(a) == IF IsNaN(a) THEN a ELSE [a EXCEPT !.n = -a.n]

FSub(a, b) == FAdd(a, FNeg(b))

FMul(a, b) ==
    IF IsNum(a) /\ IsNum(b)
    THEN LET g1 == GCD(Abs(a.n), b.d)
             g2 == GCD(Abs(b.n), a.d)
         IN  IF a.n = 0 \/ b.n = 0 THEN Num(0, 1)
             ELSE Num((a.n \div g1) * (b.n \div g2), (a.d \div g2) * (b.d \div g1))
    ELSE IF IsNaN(a) \/ IsNaN(b) THEN NaN
    ELSE IF SignOf(a) = 0 \/ SignOf(b) = 0 THEN NaN   \* inf * 0
    ELSE Inf(SignOf(a) * SignOf(b))

\* x / 0 is +-inf and 0 / 0 is NaN, as pandas divides
FDiv(a, b) ==
    IF IsNaN(a) \/ IsNaN(b) THEN NaN
    ELSE IF IsInf(a) THEN (IF IsInf(b) THEN NaN
                          ELSE Inf(a.n * (IF b.n < 0 THEN -1 ELSE 1)))
    ELSE IF IsInf(b) THEN Num(0, 1)
    ELSE IF b.n = 0 THEN (IF a.n = 0 THEN NaN ELSE Inf(Sgn(a.n)))
    ELSE FMul(a, [k |-> "num", n |-> b.d * Sgn(b.n), d |-> Abs(b.n)])

FAbs(a) ==
    IF IsNum(a) THEN Num(Abs(a.n), a.d) ELSE IF IsInf(a) THEN Inf(1) ELSE a

\* comparisons with NaN are False
FLt(a, b) ==
    /\ ~IsNaN(a)
    /\ ~IsNaN(b)
    /\ IF IsInf(a) THEN a.n < 0 /\ b # a
       ELSE IF IsInf(b) THEN b.n > 0
       ELSE LET g == GCD(a.d, b.d) IN a.n * (b.d \div g) < b.n * (a.d \div g)

FGt(a, b) == FLt(b, a)

FLe(a, b) == FLt(a, b) \/ (~IsNaN(a) /\ a = b)

FMax(a, b) == IF FLt(a, b) THEN b ELSE a

FMin(a, b) == IF FLt(b, a) THEN b ELSE a

\* Series.fillna(v), elementwise
Fillna(a, v) == IF IsNaN(a) THEN v ELSE a

Zero == IntVal(0)

One == IntVal(1)

(***************************************************************************)
(* Inputs of run: the Close column, the params mapping, the fee.           *)
(***************************************************************************)
\* closes explored: with the default levels 12 and 200 are Enter bars,
\* 15 is a None bar and 18 is an Exit bar
Closes == {12, 15, 18, 200}

RECURSIVE SeqsUpTo(_, _)
SeqsUpTo(S, n) ==
    IF n = 0 THEN {<< >>}
    ELSE LET shorter == SeqsUpTo(S, n - 1)
         IN  shorter \cup {Append(s, x) : s \in {t \in shorter : Len(t) = n - 1}, x \in S}

DataSets == SeqsUpTo(Closes, MaxLen)

Level(tenths) == Num(tenths, 10)

\* params mappings explored: the default_params levels, overlapping levels,
\* the two extreme pairs, and a mapping without the sr_ keys
ParamSets ==
    { [sr_buy |-> Level(3), sr_sell |-> Level(7), name |-> "Standard"],
      [sr_buy |-> Level(7), sr_sell |-> Level(3), name |-> "Overlap"],
      [sr_buy |-> Level(10), sr_sell |-> Level(0), name |-> "Always"],
      [sr_buy |-> Level(0), sr_sell |-> Level(10), name |-> "Never"],
      [name |-> "Unnamed"] }

FeePercents == {0, 5, MaxFeePercent}

\* fee_decimal = fee_percent / 100
fee_decimal(fee_percent) == Num(fee_percent, PercentDen)

Fees == {fee_decimal(fp) : fp \in FeePercents}

\* params.get(key, default)
Get(params, key, default) == IF key \in DOMAIN params THEN params[key] ELSE default

buy_level(params) == Get(params, "sr_buy", Level(4))

sell_level(params) == Get(params, "sr_sell", Level(6))

(***************************************************************************)
(* Signal generation (STRATEGY LOGIC, first half).                         *)
(***************************************************************************)
RECURSIVE FloorLog10(_)
\* np.floor(np.log10(p)) of a positive integer close
FloorLog10(p) == IF p < 10 THEN 0 ELSE 1 + FloorLog10(p \div 10)

RECURSIVE Pow10(_)
Pow10(e) == IF e = 0 THEN 1 ELSE 10 * Pow10(e - 1)

\* df['Close'] / 10**np.floor(np.log10(df['Close'])): log10 of a negative
\* close is NaN, log10(0) is -inf and 10**-inf is 0, so a close of 0 is 0 / 0
scaled_price(p) ==
    IF p < 0 THEN NaN
    ELSE IF p = 0 THEN FDiv(IntVal(p), Zero)
    ELSE FDiv(IntVal(p), IntVal(Pow10(FloorLog10(p))))

\* df['scaled_price'] % 1
indicator(p) ==
    LET s == scaled_price(p)
    IN  IF IsNum(s) THEN Num(s.n % s.d, s.d) ELSE NaN

\* mutant: the two assignments in the other order (the Enter one last)
signal_at_EnterLast(p, buy, sell) ==
    LET s0 == 0
        s1 == IF FGt(indicator(p), sell) THEN -1 ELSE s0
        s2 == IF FLt(indicator(p), buy) THEN 1 ELSE s1
    IN  s2

\* signal = 0, then 1 where indicator < buy_level, then -1 where
\* indicator > sell_level (the later assignment wins)
signal_at(p, buy, sell) ==
    LET s0 == 0
        s1 == IF FLt(indicator(p), buy) THEN 1 ELSE s0
        s2 == IF FGt(indicator(p), sell) THEN -1 ELSE s1
    IN  s2

Signals(closes, params) ==
    [i \in 1..Len(closes) |->
        signal_at(closes[i], buy_level(params), sell_level(params))]

(***************************************************************************)
(* Position state (STRATEGY LOGIC, second half).                           *)
(***************************************************************************)
\* mutant: the second replace is left out (an Exit stays -1)
temp_pos_ExitKept(signals) ==
    [i \in 1..Len(signals) |->
        IF signals[i] = 0 THEN NaN ELSE IntVal(signals[i])]

\* df['signal'].replace(0, np.nan).replace(-1, 0)
temp_pos(signals) ==
    [i \in 1..Len(signals) |->
        LET r1 == IF signals[i] = 0 THEN NaN ELSE IntVal(signals[i])
            r2 == IF r1 = IntVal(-1) THEN Zero ELSE r1
        IN  r2]

RECURSIVE Ffill(_)
\* Series.ffill(): a missing value takes the last value before it
Ffill(s) ==
    IF Len(s) = 0 THEN << >>
    ELSE LET n == Len(s)
             before == Ffill(SubSeq(s, 1, n - 1))
         IN  Append(before,
                    IF IsNaN(s[n]) /\ n > 1 THEN before[n - 1] ELSE s[n])

\* mutant: the forward fill is left out (the raw signal is the position)
Position_NoFfill(signals) ==
    [i \in 1..Len(signals) |-> Fillna(temp_pos(signals)[i], Zero)]

\* temp_pos.ffill().fillna(0)
Position(signals) ==
    LET filled == Ffill(temp_pos(signals))
    IN  [i \in 1..Len(signals) |-> Fillna(filled[i], Zero)]

(***************************************************************************)
(* Returns, fees and the equity curve.                                     *)
(***************************************************************************)
\* Series.pct_change()
PctChange(closes) ==
    [i \in 1..Len(closes) |->
        IF i = 1 THEN NaN
        ELSE FSub(FDiv(IntVal(closes[i]), IntVal(closes[i - 1])), One)]

\* Series.diff()
Diff(s) == [i \in 1..Len(s) |-> IF i = 1 THEN NaN ELSE FSub(s[i], s[i - 1])]

\* mutant: shift(-1), the next bar's value
Shift1_Forward(s) == [i \in 1..Len(s) |-> IF i = Len(s) THEN NaN ELSE s[i + 1]]

\* Series.shift(1)
Shift1(s) == [i \in 1..Len(s) |-> IF i = 1 THEN NaN ELSE s[i - 1]]

\* df['position'].diff().abs().fillna(0)
PositionChange(position) ==
    [i \in 1..Len(position) |-> Fillna(FAbs(Diff(position)[i]), Zero)]

\* mutant: the bar's own position multiplies the bar's market return
StratRet_SameBar(market_ret, position, fee) ==
    [i \in 1..Len(position) |->
        FSub(FMul(market_ret[i], position[i]),
             FMul(fee, PositionChange(position)[i]))]

\* df['market_ret'] * df['position'].shift(1) - fee * position_change
StratRet(market_ret, position, fee) ==
    LET shifted == Shift1(position)
        position_change == PositionChange(position)
    IN  [i \in 1..Len(position) |->
            FSub(FMul(market_ret[i], shifted[i]), FMul(fee, position_change[i]))]

RECURSIVE CumProd_Sum(_)
\* mutant: returns are added up, not compounded (1 + the running sum)
CumProd_Sum(s) ==
    IF Len(s) = 0 THEN << >>
    ELSE LET n == Len(s)
             before == CumProd_Sum(SubSeq(s, 1, n - 1))
         IN  Append(before,
                    IF n = 1 THEN s[1] ELSE FAdd(before[n - 1], FSub(s[n], One)))

RECURSIVE CumProd(_)
\* Series.cumprod()
CumProd(s) ==
    IF Len(s) = 0 THEN << >>
    ELSE LET n == Len(s)
             before == CumProd(SubSeq(s, 1, n - 1))
         IN  Append(before, IF n = 1 THEN s[1] ELSE FMul(before[n - 1], s[n]))

\* 1 + series.fillna(0)
OnePlusFilled(s) == [i \in 1..Len(s) |-> FAdd(One, Fillna(s[i], Zero))]

\* mutant: dropna() in place of fillna(0)
CumRet_Dropna(strat_ret) ==
    CumProd([j \in 1..Len(SelectSeq(strat_ret, IsNum)) |->
                FAdd(One, SelectSeq(strat_ret, IsNum)[j])])

\* (1 + df['strat_ret'].fillna(0)).cumprod()
CumRet(strat_ret) == CumProd(OnePlusFilled(strat_ret))

(***************************************************************************)
(* Trade extraction: the body of the loop over the bars.                   *)
(***************************************************************************)
LoopInit ==
    [position |-> 0, entry_price |-> Zero, entry_date |-> 0, trades_list |-> << >>]

\* mutant: a single fee per round trip
Pnl_OneFee(entry_price, exit_price, fee) ==
    FMul(FSub(FSub(FDiv(exit_price, entry_price), One), fee), IntVal(100))

\* (exit_price / entry_price - 1) - 2 * fee, converted to a percentage
Pnl(entry_price, exit_price, fee) ==
    FMul(FSub(FSub(FDiv(exit_price, entry_price), One), FMul(IntVal(2), fee)),
         IntVal(100))

\* mutant: the entry branch does not test the position
EntersLong_AnyBuy(lp, signal) == signal = 1

EntersLong(lp, signal) == lp.position = 0 /\ signal = 1

\* mutant: the exit branch does not test the position
ExitsLong_AnySell(lp, signal) == signal = -1

ExitsLong(lp, signal) == lp.position = 1 /\ signal = -1

\* mutant: the exit branch appends the trade and stays Long
ExtractStep_ExitKeepsLong(lp, signal, close_price, date, fee) ==
    IF EntersLong(lp, signal)
    THEN [lp EXCEPT !.position = 1, !.entry_price = close_price, !.entry_date = date]
    ELSE IF ExitsLong(lp, signal)
    THEN [lp EXCEPT !.trades_list =
                        Append(@, [entry_date |-> lp.entry_date,
                                   exit_date |-> date,
                                   entry_price |-> lp.entry_price,
                                   exit_price |-> close_price,
                                   pnl |-> Pnl(lp.entry_price, close_price, fee)])]
    ELSE lp

\* one iteration of the loop, at bar `date` with its signal and close
ExtractStep(lp, signal, close_price, date, fee) ==
    IF EntersLong(lp, signal)
    THEN [lp EXCEPT !.position = 1, !.entry_price = close_price, !.entry_date = date]
    ELSE IF ExitsLong(lp, signal)
    THEN [lp EXCEPT !.position = 0,
                    !.trades_list =
                        Append(@, [entry_date |-> lp.entry_date,
                                   exit_date |-> date,
                                   entry_price |-> lp.entry_price,
                                   exit_price |-> close_price,
                                   pnl |-> Pnl(lp.entry_price, close_price, fee)])]
    ELSE lp

RECURSIVE ExtractUpTo(_, _, _, _)
\* the loop state after the iterations for bars 1..m
ExtractUpTo(signals, closes, fee, m) ==
    IF m = 0 THEN LoopInit
    ELSE ExtractStep(ExtractUpTo(signals, closes, fee, m - 1),
                     signals[m], IntVal(closes[m]), m, fee)

\* trades_df['pnl'].tolist() if not trades_df.empty else []
TradeReturns(trades) == [t \in 1..Len(trades) |-> trades[t].pnl]

(***************************************************************************)
(* BaseStrategy._calculate_metrics.  total_return, max_drawdown and        *)
(* win_rate are exact; annual_return, annual_volatility and sharpe_ratio   *)
(* involve a real power and a square root and are kept as their class:     *)
(* "nan", "inf", "-inf", or the finite "zero", "pos" and "neg".            *)
(***************************************************************************)
\* returns.fillna(0)
ReturnsClean(returns) == [i \in 1..Len(returns) |-> Fillna(returns[i], Zero)]

\* (1 + returns_clean).cumprod()
Cumulative(returns) == CumProd(OnePlusFilled(returns))

\* series.iloc[-1] of a non-empty series
Last(s) == s[Len(s)]

\* (cumulative.iloc[-1] - 1) * 100
TotalReturn(returns) == FMul(FSub(Last(Cumulative(returns)), One), IntVal(100))

ClassOf(a) ==
    IF IsNaN(a) THEN "nan"
    ELSE IF IsInf(a) THEN (IF a.n > 0 THEN "inf" ELSE "-inf")
    ELSE IF a.n = 0 THEN "zero" ELSE IF a.n > 0 THEN "pos" ELSE "neg"

\* n_periods = len(returns_clean); years = n_periods / 252
Years(returns) == Num(Len(ReturnsClean(returns)), TradingDays)

\* ((cumulative.iloc[-1]) ** (1 / years) - 1) * 100 if years > 0 else 0:
\* a negative base gives NaN unless the exponent 252 / n is a whole number;
\* -inf to a positive power is -inf for an odd whole exponent, else +inf
AnnualReturn(returns) ==
    LET b == Last(Cumulative(returns))
        n == Len(returns)
        whole == TradingDays % n = 0
        even == (TradingDays \div n) % 2 = 0
    IN  IF ~FGt(Years(returns), Zero) THEN "zero"
        ELSE IF IsNaN(b) THEN "nan"
        ELSE IF IsInf(b) THEN (IF b.n < 0 /\ whole /\ ~even THEN "-inf" ELSE "inf")
        ELSE IF b.n >= 0 THEN ClassOf(FSub(b, One))
        ELSE IF ~whole THEN "nan"
        ELSE IF even THEN ClassOf(FSub(FAbs(b), One))
        ELSE "neg"

\* returns_clean.std() * np.sqrt(252) * 100: the sample standard deviation
\* (ddof = 1) is NaN for fewer than two values, NaN when a value is
\* infinite (inf - inf in the deviations) and 0 when all are equal
AnnualVolatility(returns) ==
    LET rc == ReturnsClean(returns)
    IN  IF Len(rc) < 2 THEN "nan"
        ELSE IF \E i \in 1..Len(rc) : ~IsNum(rc[i]) THEN "nan"
        ELSE IF \A i \in 1..Len(rc) : rc[i] = rc[1] THEN "zero"
        ELSE "pos"

\* (annual_return / annual_volatility) if annual_volatility > 0 else 0
Sharpe(returns) ==
    IF AnnualVolatility(returns) = "pos" THEN AnnualReturn(returns) ELSE "zero"

RECURSIVE ExpandingMax(_)
\* cumulative.expanding().max()
ExpandingMax(s) ==
    IF Len(s) = 0 THEN << >>
    ELSE LET n == Len(s)
             before == ExpandingMax(SubSeq(s, 1, n - 1))
         IN  Append(before, IF n = 1 THEN s[1] ELSE FMax(before[n - 1], s[n]))

\* (cumulative - running_max) / running_max
Drawdown(returns) ==
    LET cumulative == Cumulative(returns)
        running_max == ExpandingMax(cumulative)
    IN  [i \in 1..Len(returns) |->
            FDiv(FSub(cumulative[i], running_max[i]), running_max[i])]

RECURSIVE SeriesMin(_)
\* Series.min(): the least non-missing value
SeriesMin(s) ==
    IF Len(s) = 0 THEN NaN
    ELSE LET n == Len(s)
             before == SeriesMin(SubSeq(s, 1, n - 1))
         IN  IF IsNaN(s[n]) THEN before
             ELSE IF IsNaN(before) THEN s[n]
             ELSE FMin(before, s[n])

\* drawdown.min() * 100
MaxDrawdown(returns) == FMul(SeriesMin(Drawdown(returns)), IntVal(100))

\* len(trades[trades['pnl'] > 0])
WinningTrades(trades) == Cardinality({t \in 1..Len(trades) : FGt(trades[t].pnl, Zero)})

\* len(trades) if trades is not None and not trades.empty else 0
TotalTrades(trades) == IF Len(trades) > 0 THEN Len(trades) ELSE 0

\* mutant: the share of winning trades as a fraction, not a percentage
WinRate_Fraction(trades) ==
    IF Len(trades) > 0
    THEN FDiv(IntVal(WinningTrades(trades)), IntVal(Len(trades)))
    ELSE Zero

\* (winning_trades / total_trades * 100) if there are trades, else 0
WinRate(trades) ==
    IF Len(trades) > 0
    THEN FMul(FDiv(IntVal(WinningTrades(trades)), IntVal(Len(trades))), IntVal(100))
    ELSE Zero

\* the metrics mapping of a non-empty return series
Metrics(returns, trades) ==
    [total_return |-> TotalReturn(returns),
     annual_return |-> AnnualReturn(returns),
     annual_volatility |-> AnnualVolatility(returns),
     sharpe_ratio |-> Sharpe(returns),
     max_drawdown |-> MaxDrawdown(returns),
     total_trades |-> TotalTrades(trades),
     win_rate |-> WinRate(trades)]

\* mutant: a one-point curve is refused as well
MetricsRaises_OnePoint(returns) == Len(returns) <= 1

\* cumulative.iloc[-1] of an empty series raises IndexError
MetricsRaises(returns) == Len(returns) = 0

(***************************************************************************)
(* The body of run as one function of its arguments, and the               *)
(* st.cache_data decorator around it.                                      *)
(***************************************************************************)
\* the StrategyResult the body of run builds
StrategyResult(closes, p, f) ==
    LET sig == Signals(closes, p)
        pos == Position(sig)
        ret == StratRet(PctChange(closes), pos, f)
        trades == ExtractUpTo(sig, closes, f, Len(closes)).trades_list
    IN  [metrics |-> Metrics(ret, trades),
         cumulative_returns |-> CumRet(ret),
         trades |-> trades,
         trade_returns |-> TradeReturns(trades)]

\* the body raises (in _calculate_metrics) exactly on an empty series
RunRaises(closes, p, f) ==
    MetricsRaises(StratRet(PctChange(closes), Position(Signals(closes, p)), f))

\* mutant: the fee is left out of the cache key
CacheKey_NoFee(closes, p, f) == << closes, p >>

\* st.cache_data keys an entry by the arguments whose names do not start
\* with an underscore: data, params and fee (not _self)
CacheKey(closes, p, f) == << closes, p, f >>

\* the cache is a set of (key, value) entries, at most one per key
CacheHas(c, key) == \E e \in c : e.key = key

CacheGet(c, key) == (CHOOSE e \in c : e.key = key).value

CachePut(c, key, value) ==
    {e \in c : e.key # key} \cup {[key |-> key, value |-> value]}

(***************************************************************************)
(* One invocation of run, stage by stage.                                  *)
(***************************************************************************)
VARIABLES
    data,           \* the Close column of the caller's DataFrame
    params,         \* the params mapping
    fee,            \* the fee, a decimal fraction
    pc,             \* the stage run has reached
    signal,         \* df['signal']
    position,       \* df['position']
    market_ret,     \* df['market_ret']
    strat_ret,      \* df['strat_ret']
    cum_ret,        \* df['cum_ret']
    st_written,     \* number of st.write calls made so far
    i,              \* the loop index (bars already processed)
    loop,           \* the loop's locals: position, entry_price, entry_date, trades_list
    result,         \* << >> until run returns, then <<StrategyResult>>
    cache,          \* st.cache_data: cache key -> StrategyResult
    calls,          \* run invocations made so far
    hit,            \* whether the last invocation was served from the cache
    frames,         \* the columns of the caller's DataFrame ("data") and of df
    df,             \* the frame the name df is bound to
    error,          \* the exception run raised, "" when none
    session_state,  \* st.session_state of the dashboard
    calc,           \* the handler of the Calculate button: its position and locals
    start_date,     \* the start date given to validate_date_range
    end_date,       \* the end date given to validate_date_range
    validated,      \* what validate_date_range returned, or the error it raised
    form            \* the last action of the parameter form and its index

vars == << data, params, fee, pc, signal, position, market_ret, strat_ret,
           cum_ret, st_written, i, loop, result, cache, calls, hit, frames,
           df, error, session_state, calc, start_date, end_date, validated,
           form >>

inputVars == << data, params, fee >>

cacheVars == << calls, hit >>

frameVars == << frames, df >>

dateVars == << start_date, end_date, validated >>

appVars == << session_state, calc, dateVars, form >>

\* no button of the parameter form has been clicked
FormIdle == [action |-> "none", idx |-> 0]

(***************************************************************************)
(* Dates (utils/data_loader.py, validate_date_range).  A datetime.date is  *)
(* a day number; a datetime.datetime is a day number and an hour.  Python  *)
(* refuses to compare a date with a datetime: it raises TypeError.         *)
(***************************************************************************)
\* hours in a day
HoursPerDay == 24
\* the shortest date range accepted, in days
MinRangeDays == 30
\* the day number of the day the dashboard runs
Today == 1000
\* the days between the default start date and now
DefaultRangeDays == 365

Date(day) == [type |-> "date", day |-> day, hour |-> 0]

DateTime(day, hour) == [type |-> "datetime", day |-> day, hour |-> hour]

\* datetime.now(), at noon
Now == DateTime(Today, 12)

\* the instant of a date or datetime, in hours
Hours(t) == t.day * HoursPerDay + t.hour

\* a comparison or difference of a and b is defined
SameType(a, b) == a.type = b.type

\* (end_date - start_date).days
DaysDiff(start, end) == (Hours(end) - Hours(start)) \div HoursPerDay

\* the call returned the tuple value
Returned(value) == [raised |-> "", value |-> value]

\* the call raised the exception named
Raised(exception) == [raised |-> exception, value |-> << >>]

\* validate_date_range has not been called
NotValidated == [raised |-> "", value |-> << >>]

\* validate_date_range: start_date >= end_date, then the days of the
\* difference, then end_date > datetime.now(); each comparison raises
\* TypeError when one side is a date and the other a datetime
validate_date_range(start, end) ==
    IF ~SameType(start, end) THEN Raised("TypeError")
    ELSE IF Hours(start) >= Hours(end)
    THEN Returned(<< start, end, "Start date must be before end date" >>)
    ELSE IF DaysDiff(start, end) < MinRangeDays
    THEN Returned(<< start, end, "Date range must be at least 30 days" >>)
    ELSE IF ~SameType(end, Now) THEN Raised("TypeError")
    ELSE IF Hours(end) > Hours(Now)
    THEN Returned(<< start, end, "End date cannot be in the future" >>)
    ELSE Returned(<< start, end, "None" >>)

\* the values of the two date inputs of the sidebar before they are edited
DefaultStart == Date(Today - DefaultRangeDays)

DefaultEnd == Date(Today)

\* st.session_state after init_session_state, with no strategy rendered yet
SessionInit ==
    [strategy_params |-> << >>, results |-> << >>, benchmark |-> << >>,
     data |-> << >>, ticker |-> "", calculation_done |-> FALSE]

\* the Calculate handler at rest, before any click
CalcIdle ==
    [pc |-> "idle", ticker |-> "", errors |-> << >>, benchmark |-> << >>,
     all_results |-> << >>, next |-> 0, outcome |-> "none"]

\* the columns of the price DataFrame the data provider returns
OHLCV == {"Open", "High", "Low", "Close", "Volume"}

\* no frame is bound to df before run copies its argument
NoFrame == "none"

\* mutant: df = data, the caller's frame itself
CopyTarget_Alias(ref) == ref

\* data.copy() is a new frame
CopyTarget(ref) == "df"

\* df = data.copy()
DataCopy(heap, ref) == [heap EXCEPT ![CopyTarget(ref)] = heap[ref]]

\* df[c] = ... for the columns cols
AddColumns(heap, ref, cols) == [heap EXCEPT ![ref] = @ \cup cols]

SignalColumns == {"scaled_price", "indicator", "signal"}

ReturnColumns == {"market_ret", "strat_ret", "cum_ret"}

\* the frames a caller may pass: with every price column, or lacking Close
CallerFrames == {OHLCV, OHLCV \ {"Close"}}

\* the frames of a call: the caller's, with no Close values when the column
\* is absent, and df not yet bound
FramesOf(cols) == [data |-> cols, df |-> {}]

\* the state at the call of run with arguments drawn from the given sets
InitWith(dataSets, paramSets, fees) ==
    /\ data \in dataSets
    /\ params \in paramSets
    /\ fee \in fees
    /\ pc = "start"
    /\ signal = << >>
    /\ position = << >>
    /\ market_ret = << >>
    /\ strat_ret = << >>
    /\ cum_ret = << >>
    /\ st_written = 0
    /\ i = 0
    /\ loop = LoopInit
    /\ result = << >>
    /\ cache = {}
    /\ calls = 1
    /\ hit = FALSE
    /\ \E cols \in CallerFrames :
          /\ frames = FramesOf(cols)
          /\ "Close" \notin cols => data = << >>
    /\ df = NoFrame
    /\ error = ""
    /\ session_state = SessionInit
    /\ calc = CalcIdle
    /\ start_date = DefaultStart
    /\ end_date = DefaultEnd
    /\ validated = NotValidated
    /\ form = FormIdle

Init == InitWith(DataSets, ParamSets, Fees)

\* df = data.copy(); the parameters; the signal column
GenerateSignals ==
    /\ pc = "start"
    /\ "Close" \in frames["data"]
    /\ df' = CopyTarget("data")
    /\ frames' = AddColumns(DataCopy(frames, "data"), df', SignalColumns)
    /\ signal' = Signals(data, params)
    /\ pc' = "signals"
    /\ UNCHANGED << inputVars, position, market_ret, strat_ret, cum_ret,
                    st_written, i, loop, result, cache, cacheVars, error, appVars >>

\* df['Close'] of a frame without that column raises KeyError
RaiseKeyError ==
    /\ pc = "start"
    /\ "Close" \notin frames["data"]
    /\ df' = CopyTarget("data")
    /\ frames' = DataCopy(frames, "data")
    /\ error' = "KeyError"
    /\ pc' = "raised"
    /\ UNCHANGED << inputVars, signal, position, market_ret, strat_ret, cum_ret,
                    st_written, i, loop, result, cache, cacheVars, appVars >>

\* the position column
ResolvePosition ==
    /\ pc = "signals"
    /\ position' = Position(signal)
    /\ frames' = AddColumns(frames, df, {"position"})
    /\ pc' = "positions"
    /\ UNCHANGED << inputVars, signal, market_ret, strat_ret, cum_ret,
                    st_written, i, loop, result, cache, cacheVars, df, error, appVars >>

\* market_ret, strat_ret and cum_ret
ComputeReturns ==
    /\ pc = "positions"
    /\ market_ret' = PctChange(data)
    /\ strat_ret' = StratRet(market_ret', position, fee)
    /\ cum_ret' = CumRet(strat_ret')
    /\ frames' = AddColumns(frames, df, ReturnColumns)
    /\ pc' = "returns"
    /\ UNCHANGED << inputVars, signal, position, st_written, i, loop, result,
                    cache, cacheVars, df, error, appVars >>

\* the four st.write calls, then the loop's locals
DebugWrite ==
    /\ pc = "returns"
    /\ st_written' = st_written + 4
    /\ i' = 0
    /\ loop' = LoopInit
    /\ pc' = "extract"
    /\ UNCHANGED << inputVars, signal, position, market_ret, strat_ret, cum_ret,
                    result, cache, cacheVars, frameVars, error, appVars >>

\* one iteration of `for i in range(len(df))`
ExtractTrades ==
    /\ pc = "extract"
    /\ i < Len(data)
    /\ loop' = ExtractStep(loop, signal[i + 1], IntVal(data[i + 1]), i + 1, fee)
    /\ i' = i + 1
    /\ UNCHANGED << inputVars, pc, signal, position, market_ret, strat_ret,
                    cum_ret, st_written, result, cache, cacheVars, frameVars,
                    error, appVars >>

\* the loop is over: trades_df, trade_returns, the metrics, the result
ReturnResult ==
    /\ pc = "extract"
    /\ i = Len(data)
    /\ ~MetricsRaises(strat_ret)
    /\ result' = << [metrics |-> Metrics(strat_ret, loop.trades_list),
                     cumulative_returns |-> cum_ret,
                     trades |-> loop.trades_list,
                     trade_returns |-> TradeReturns(loop.trades_list)] >>
    /\ cache' = CachePut(cache, CacheKey(data, params, fee), result'[1])
    /\ pc' = "done"
    /\ UNCHANGED << inputVars, signal, position, market_ret, strat_ret, cum_ret,
                    st_written, i, loop, cacheVars, frameVars, error, appVars >>

\* _calculate_metrics raises on an empty return series: run returns nothing
RaiseIndexError ==
    /\ pc = "extract"
    /\ i = Len(data)
    /\ MetricsRaises(strat_ret)
    /\ error' = "IndexError"
    /\ pc' = "raised"
    /\ UNCHANGED << inputVars, signal, position, market_ret, strat_ret, cum_ret,
                    st_written, i, loop, result, cache, cacheVars, frameVars, appVars >>

Next ==
    \/ GenerateSignals
    \/ RaiseKeyError
    \/ ResolvePosition
    \/ ComputeReturns
    \/ DebugWrite
    \/ ExtractTrades
    \/ ReturnResult
    \/ RaiseIndexError

Spec == Init /\ [][Next]_vars

(***************************************************************************)
(* run on arguments no validation has seen: closes that are zero or        *)
(* negative, levels outside [0, 1], absent sr_ keys.                       *)
(***************************************************************************)
\* closes explored: 200 is an Enter bar under every level pair used here
UncheckedCloses == {-12, 0, 12, 200}

UncheckedDataSets == SeqsUpTo(UncheckedCloses, MaxLen)

UncheckedParamSets ==
    { [sr_buy |-> Level(3), sr_sell |-> Level(7), name |-> "Standard"],
      [sr_buy |-> Level(15), sr_sell |-> Level(-5), name |-> "OutOfRange"],
      [sr_sell |-> Level(7), name |-> "NoBuyLevel"] }

UncheckedFees == {fee_decimal(0), fee_decimal(MaxFeePercent)}

UncheckedInit == InitWith(UncheckedDataSets, UncheckedParamSets, UncheckedFees)

UncheckedSpec == UncheckedInit /\ [][Next]_vars

(***************************************************************************)
(* run on the worked example of the levels 1.0 / 0.0 and on the other      *)
(* series of its closes.                                                   *)
(***************************************************************************)
ScenarioCloses == << 100, 90, 95, 100, 105 >>

ScenarioDataSets ==
    SeqsUpTo({ScenarioCloses[k] : k \in DOMAIN ScenarioCloses}, Len(ScenarioCloses))

ScenarioParams == [sr_buy |-> Level(10), sr_sell |-> Level(0), name |-> "Always"]

ScenarioInit == InitWith(ScenarioDataSets, {ScenarioParams}, {fee_decimal(0)})

ScenarioSpec == ScenarioInit /\ [][Next]_vars

(***************************************************************************)
(* The dashboard (app.py): the handler of the Calculate button, which      *)
(* validates the inputs, fetches the price history, runs the strategy on   *)
(* every configured parameter set and stores the results in the session    *)
(* state.  The handler is one try block: an exception of the fetch or of   *)
(* any run leaves it through the except clause.  Whether a call raises is  *)
(* the choice of the data provider and of the strategy called.             *)
(***************************************************************************)
\* strategy.name
STRATEGY_NAME == "Support & Resistance"

\* the key of the registered strategy
STRATEGY_ID == "support_resistance"

\* strategy.default_params
default_params == [sr_buy |-> Level(3), sr_sell |-> Level(7), name |-> "Standard"]

\* parameter sets a user configures: the defaults (a list may hold several
\* copies of them), an edited and renamed set, and one whose name field is
\* blank
ConfiguredSets ==
    { default_params,
      [default_params EXCEPT !.sr_buy = Level(7), !.sr_sell = Level(3), !.name = "Tight"],
      [default_params EXCEPT !.name = ""] }

\* the non-empty lists of parameter sets of the strategy
ConfiguredLists == SeqsUpTo(ConfiguredSets, MaxSets) \ {<< >>}

\* the ticker field: blank or a symbol
Tickers == {"", "KO"}

\* the two date fields: the default range as dates, the same range reversed,
\* and the default range as datetimes
SidebarDateRanges ==
    { << DefaultStart, DefaultEnd >>,
      << DefaultEnd, DefaultStart >>,
      << DateTime(Today - DefaultRangeDays, 0), DateTime(Today, 0) >> }

\* the fee field, as fee_decimal
SidebarFees == {fee_decimal(0), fee_decimal(MaxFeePercent)}

\* the Close columns fetch_stock_data may return (never an empty frame)
PriceHistories == {<< 12, 18 >>, << 200, 18, 12 >>}

\* f"{strategy.name} - {params.get('name', 'Unnamed')}"
strategy_name(p) == << STRATEGY_NAME, " - ", Get(p, "name", "Unnamed") >>

\* d[key] = value on a dict
DictPut(d, key, value) ==
    [k \in DOMAIN d \cup {key} |-> IF k = key THEN value ELSE d[k]]

\* value is None or (isinstance(value, str) and len(value.strip()) == 0):
\* the levels come from number inputs and are never None, the name is the
\* one text field
IsMissing(p, key) == key = "name" /\ p[key] = ""

RECURSIVE ParamErrors(_, _)
\* the "Missing parameter" errors of the first m parameter sets
ParamErrors(sets, m) ==
    IF m = 0 THEN << >>
    ELSE ParamErrors(sets, m - 1) \o
         (IF \E key \in DOMAIN sets[m] : IsMissing(sets[m], key)
          THEN << << "Missing parameter", m >> >> ELSE << >>)

\* validate_inputs: the list of error messages, or the exception that
\* validate_date_range raised
validate_inputs(ticker, start, end, sets) ==
    LET dates == validate_date_range(start, end)
    IN  IF dates.raised # "" THEN Raised(dates.raised)
        ELSE Returned(
            (IF ticker = "" THEN << << "Ticker symbol is required", 0 >> >> ELSE << >>)
            \o (IF dates.value[3] # "None" THEN << << dates.value[3], 0 >> >> ELSE << >>)
            \o ParamErrors(sets, Len(sets)))

\* calculate_buy_hold_returns
calculate_buy_hold_returns(closes) == CumProd(OnePlusFilled(PctChange(closes)))

\* st.session_state.strategy_params.get(strategy_id, [])
param_sets == Get(session_state.strategy_params, STRATEGY_ID, << >>)

BatchInit ==
    /\ data = << >>
    /\ params = default_params
    /\ fee = Zero
    /\ pc = "idle"
    /\ signal = << >>
    /\ position = << >>
    /\ market_ret = << >>
    /\ strat_ret = << >>
    /\ cum_ret = << >>
    /\ st_written = 0
    /\ i = 0
    /\ loop = LoopInit
    /\ result = << >>
    /\ cache = {}
    /\ calls = 0
    /\ hit = FALSE
    /\ frames = FramesOf(OHLCV)
    /\ df = NoFrame
    /\ error = ""
    /\ \E sets \in ConfiguredLists :
          session_state = [SessionInit EXCEPT !.strategy_params = [support_resistance |-> sets]]
    /\ calc = CalcIdle
    /\ start_date = DefaultStart
    /\ end_date = DefaultEnd
    /\ validated = NotValidated
    /\ form = FormIdle

\* the variables of run that the handler does not hold
runVars == << pc, signal, position, market_ret, strat_ret, cum_ret, st_written,
             i, loop, cache, calls, hit, frames, df, error >>

\* Calculate is clicked and validate_inputs reports errors: they are shown,
\* nothing is fetched or run
ValidationFails ==
    /\ calc.pc = "idle"
    /\ \E ticker \in Tickers, range \in SidebarDateRanges, f \in SidebarFees :
          LET checked == validate_inputs(ticker, range[1], range[2], param_sets)
          IN  /\ checked.raised = ""
              /\ checked.value # << >>
              /\ fee' = f
              /\ start_date' = range[1]
              /\ end_date' = range[2]
              /\ validated' = validate_date_range(range[1], range[2])
              /\ calc' = [calc EXCEPT !.ticker = ticker, !.errors = checked.value,
                                      !.outcome = "invalid"]
    /\ UNCHANGED << data, params, result, session_state, form, runVars >>

\* Calculate is clicked and validate_inputs raises: the exception leaves
\* the script run, nothing is fetched or run
ValidationRaises ==
    /\ calc.pc = "idle"
    /\ \E ticker \in Tickers, range \in SidebarDateRanges, f \in SidebarFees :
          LET checked == validate_inputs(ticker, range[1], range[2], param_sets)
          IN  /\ checked.raised # ""
              /\ fee' = f
              /\ start_date' = range[1]
              /\ end_date' = range[2]
              /\ validated' = validate_date_range(range[1], range[2])
              /\ calc' = [calc EXCEPT !.ticker = ticker,
                                      !.errors = << << checked.raised, 0 >> >>,
                                      !.outcome = "crashed"]
    /\ UNCHANGED << data, params, result, session_state, form, runVars >>

\* Calculate is clicked and the inputs are valid: the try block is entered
ValidationPasses ==
    /\ calc.pc = "idle"
    /\ \E ticker \in Tickers, range \in SidebarDateRanges, f \in SidebarFees :
          /\ validate_inputs(ticker, range[1], range[2], param_sets) = Returned(<< >>)
          /\ fee' = f
          /\ start_date' = range[1]
          /\ end_date' = range[2]
          /\ validated' = validate_date_range(range[1], range[2])
          /\ calc' = [CalcIdle EXCEPT !.pc = "fetch", !.ticker = ticker,
                                      !.outcome = "pending"]
    /\ UNCHANGED << data, params, result, session_state, form, runVars >>

\* fetch_stock_data returns a frame; the benchmark is computed and
\* all_results starts empty
FetchData ==
    /\ calc.pc = "fetch"
    /\ \E closes \in PriceHistories :
          /\ data' = closes
          /\ calc' = [calc EXCEPT !.pc = "running",
                                  !.benchmark = calculate_buy_hold_returns(closes),
                                  !.all_results = << >>, !.next = 1]
    /\ UNCHANGED << params, fee, result, session_state, form, runVars, dateVars >>

\* fetch_stock_data raises ValueError: the except clause shows it
FetchRaises ==
    /\ calc.pc = "fetch"
    /\ calc' = [calc EXCEPT !.pc = "idle", !.outcome = "fetch_failed",
                            !.errors = << << "Error", 0 >> >>]
    /\ UNCHANGED << data, params, fee, result, session_state, form, runVars, dateVars >>

\* one iteration of the loop over the parameter sets: run returns and its
\* result is put in all_results under the strategy_name
RunReturns ==
    /\ calc.pc = "running"
    /\ calc.next <= Len(param_sets)
    /\ params' = param_sets[calc.next]
    /\ result' = << StrategyResult(data, params', fee) >>
    /\ calc' = [calc EXCEPT !.all_results = DictPut(@, strategy_name(params'), result'[1]),
                            !.next = @ + 1]
    /\ UNCHANGED << data, fee, session_state, form, runVars, dateVars >>

\* mutant: the results gathered before the exception are stored
RunRaisesInBatch_StoresPartial ==
    /\ calc.pc = "running"
    /\ calc.next <= Len(param_sets)
    /\ params' = param_sets[calc.next]
    /\ session_state' = [session_state EXCEPT !.results = calc.all_results,
                                              !.calculation_done = TRUE]
    /\ calc' = [calc EXCEPT !.pc = "idle", !.outcome = "aborted",
                            !.errors = << << "Unexpected error", calc.next >> >>]
    /\ UNCHANGED << data, fee, result, form, runVars, dateVars >>

\* one iteration of the loop in which run raises: the except clause shows
\* the error and the handler ends, all_results being dropped
RunRaisesInBatch ==
    /\ calc.pc = "running"
    /\ calc.next <= Len(param_sets)
    /\ params' = param_sets[calc.next]
    /\ calc' = [calc EXCEPT !.pc = "idle", !.outcome = "aborted",
                            !.errors = << << "Unexpected error", calc.next >> >>]
    /\ UNCHANGED << data, fee, result, session_state, form, runVars, dateVars >>

\* the loop has ended: the results are stored in the session state
StoreResults ==
    /\ calc.pc = "running"
    /\ calc.next > Len(param_sets)
    /\ session_state' = [session_state EXCEPT !.results = calc.all_results,
                                              !.benchmark = calc.benchmark,
                                              !.data = data,
                                              !.ticker = calc.ticker,
                                              !.calculation_done = TRUE]
    /\ calc' = [calc EXCEPT !.pc = "idle", !.outcome = "stored"]
    /\ UNCHANGED << data, params, fee, result, form, runVars, dateVars >>

BatchNext ==
    \/ ValidationFails
    \/ ValidationRaises
    \/ ValidationPasses
    \/ FetchData
    \/ FetchRaises
    \/ RunReturns
    \/ RunRaisesInBatch
    \/ StoreResults

BatchSpec == BatchInit /\ [][BatchNext]_vars

(***************************************************************************)
(* validate_date_range called on dates and datetimes around today.         *)
(***************************************************************************)
\* days explored: ranges of exactly 30 days, of a few days, ending today
\* and ending tomorrow
DateDays == {Today - 40, Today - 10, Today, Today + 1}

\* the dates, and the datetimes at midnight and at 23:00, of those days
DateValues ==
    {Date(d) : d \in DateDays} \cup {DateTime(d, h) : d \in DateDays, h \in {0, 23}}

DateInit ==
    /\ data = << >>
    /\ params = default_params
    /\ fee = Zero
    /\ pc = "idle"
    /\ signal = << >>
    /\ position = << >>
    /\ market_ret = << >>
    /\ strat_ret = << >>
    /\ cum_ret = << >>
    /\ st_written = 0
    /\ i = 0
    /\ loop = LoopInit
    /\ result = << >>
    /\ cache = {}
    /\ calls = 0
    /\ hit = FALSE
    /\ frames = FramesOf(OHLCV)
    /\ df = NoFrame
    /\ error = ""
    /\ session_state = SessionInit
    /\ calc = CalcIdle
    /\ start_date \in DateValues
    /\ end_date \in DateValues
    /\ validated = NotValidated
    /\ form = FormIdle

\* the call validate_date_range(start_date, end_date)
ValidateDates ==
    /\ validated = NotValidated
    /\ validated' = validate_date_range(start_date, end_date)
    /\ UNCHANGED << inputVars, result, form, runVars, session_state, calc, start_date,
                    end_date >>

DateNext == ValidateDates

DateSpec == DateInit /\ [][DateNext]_vars

(***************************************************************************)
(* The parameter form of the strategy (app.py, render_parameter_form):     *)
(* its first rendering, the edits of a set's fields, and the buttons "Add  *)
(* Parameter Set" and "Remove This Set".  Sets are numbered from 1.        *)
(***************************************************************************)
\* the strategy has an entry in st.session_state.strategy_params
Rendered == STRATEGY_ID \in DOMAIN session_state.strategy_params

\* st.session_state.strategy_params[strategy_id] = sets
WithParamSets(sets) ==
    [session_state EXCEPT
        !.strategy_params = DictPut(@, STRATEGY_ID, sets)]

\* mutant: the last set is removed, whichever button was clicked
Pop_Last(list, idx) == SubSeq(list, 1, Len(list) - 1)

\* list.pop(idx)
Pop(list, idx) == SubSeq(list, 1, idx - 1) \o SubSeq(list, idx + 1, Len(list))

FormInit ==
    /\ data = << >>
    /\ params = default_params
    /\ fee = Zero
    /\ pc = "idle"
    /\ signal = << >>
    /\ position = << >>
    /\ market_ret = << >>
    /\ strat_ret = << >>
    /\ cum_ret = << >>
    /\ st_written = 0
    /\ i = 0
    /\ loop = LoopInit
    /\ result = << >>
    /\ cache = {}
    /\ calls = 0
    /\ hit = FALSE
    /\ frames = FramesOf(OHLCV)
    /\ df = NoFrame
    /\ error = ""
    /\ session_state = SessionInit
    /\ calc = CalcIdle
    /\ start_date = DefaultStart
    /\ end_date = DefaultEnd
    /\ validated = NotValidated
    /\ form = FormIdle

\* the variables the parameter form leaves alone
formFrame == << inputVars, result, runVars, calc, dateVars >>

\* the first rendering: the list is initialised with a copy of default_params
RenderForm ==
    /\ ~Rendered
    /\ session_state' = WithParamSets(<< default_params >>)
    /\ form' = [action |-> "render", idx |-> 0]
    /\ UNCHANGED formFrame

\* the user edits the fields of a set: each field takes the widget's value
EditParameterSet ==
    /\ Rendered
    /\ \E idx \in DOMAIN param_sets, edited \in ConfiguredSets :
          /\ edited # param_sets[idx]
          /\ session_state' = WithParamSets([param_sets EXCEPT ![idx] = edited])
          /\ form' = [action |-> "edit", idx |-> idx]
    /\ UNCHANGED formFrame

\* "Remove This Set" of set idx, a button drawn only while
\* len(param_sets) > 1
RemoveThisSet ==
    /\ Rendered
    /\ Len(param_sets) > 1
    /\ \E idx \in DOMAIN param_sets :
          /\ session_state' = WithParamSets(Pop(param_sets, idx))
          /\ form' = [action |-> "remove", idx |-> idx]
    /\ UNCHANGED formFrame

\* "Add Parameter Set": a copy of default_params is appended
AddParameterSet ==
    /\ Rendered
    /\ Len(param_sets) < MaxSets
    /\ session_state' = WithParamSets(Append(param_sets, default_params))
    /\ form' = [action |-> "add", idx |-> 0]
    /\ UNCHANGED formFrame

FormNext ==
    \/ RenderForm
    \/ EditParameterSet
    \/ RemoveThisSet
    \/ AddParameterSet

FormSpec == FormInit /\ [][FormNext]_vars

(***************************************************************************)
(* Repeated invocations of the cached run by a caller: each call is one    *)
(* step, served from the cache when its key is there.                      *)
(***************************************************************************)
\* price series, params and fees the caller passes
CallData == { << >>, << 12 >>, << 12, 18 >>, << 200, 18 >>, << 12, 18, 12 >> }

CallParams ==
    { [sr_buy |-> Level(3), sr_sell |-> Level(7), name |-> "Standard"],
      [name |-> "Unnamed"] }

CallFees == {fee_decimal(0), fee_decimal(MaxFeePercent)}

CacheInit ==
    /\ data = << >>
    /\ params = [name |-> "Unnamed"]
    /\ fee = Zero
    /\ pc = "idle"
    /\ signal = << >>
    /\ position = << >>
    /\ market_ret = << >>
    /\ strat_ret = << >>
    /\ cum_ret = << >>
    /\ st_written = 0
    /\ i = 0
    /\ loop = LoopInit
    /\ result = << >>
    /\ cache = {}
    /\ calls = 0
    /\ hit = FALSE
    /\ frames = FramesOf(OHLCV)
    /\ df = NoFrame
    /\ error = ""
    /\ session_state = SessionInit
    /\ calc = CalcIdle
    /\ start_date = DefaultStart
    /\ end_date = DefaultEnd
    /\ validated = NotValidated
    /\ form = FormIdle

dfVars == << signal, position, market_ret, strat_ret, cum_ret, i, loop >>

\* the key is cached: the stored result is returned, the body does not run
CallHit(d, p, f) ==
    /\ calls < MaxCalls
    /\ CacheHas(cache, CacheKey(d, p, f))
    /\ data' = d /\ params' = p /\ fee' = f
    /\ calls' = calls + 1
    /\ hit' = TRUE
    /\ result' = << CacheGet(cache, CacheKey(d, p, f)) >>
    /\ st_written' = st_written + 4   \* the cached st.write elements are replayed
    /\ error' = ""
    /\ pc' = "done"
    /\ UNCHANGED << dfVars, cache, frameVars, appVars >>

\* the key is not cached: the body runs and its result is stored
CallMiss(d, p, f) ==
    /\ calls < MaxCalls
    /\ ~CacheHas(cache, CacheKey(d, p, f))
    /\ ~RunRaises(d, p, f)
    /\ data' = d /\ params' = p /\ fee' = f
    /\ calls' = calls + 1
    /\ hit' = FALSE
    /\ result' = << StrategyResult(d, p, f) >>
    /\ cache' = CachePut(cache, CacheKey(d, p, f), result'[1])
    /\ st_written' = st_written + 4
    /\ df' = CopyTarget("data")
    /\ frames' = AddColumns(DataCopy(frames, "data"), df',
                            SignalColumns \cup {"position"} \cup ReturnColumns)
    /\ error' = ""
    /\ pc' = "done"
    /\ UNCHANGED << dfVars, appVars >>

\* the key is not cached and the body raises: nothing is stored
CallRaises(d, p, f) ==
    /\ calls < MaxCalls
    /\ ~CacheHas(cache, CacheKey(d, p, f))
    /\ RunRaises(d, p, f)
    /\ data' = d /\ params' = p /\ fee' = f
    /\ calls' = calls + 1
    /\ hit' = FALSE
    /\ result' = << >>
    /\ st_written' = st_written + 4
    /\ df' = CopyTarget("data")
    /\ frames' = AddColumns(DataCopy(frames, "data"), df',
                            SignalColumns \cup {"position"} \cup ReturnColumns)
    /\ error' = "IndexError"
    /\ pc' = "raised"
    /\ UNCHANGED << dfVars, cache, appVars >>

CacheNext ==
    \E d \in CallData, p \in CallParams, f \in CallFees :
        \/ CallHit(d, p, f)
        \/ CallMiss(d, p, f)
        \/ CallRaises(d, p, f)

CacheSpec == CacheInit /\ [][CacheNext]_vars

(***************************************************************************)
(* Properties.                                                             *)
(***************************************************************************)
Flat == Zero

Long == One

\* the stages of run at which a column or local exists
PositionResolved == pc \in {"positions", "returns", "extract", "done", "raised"}

ReturnsComputed == pc \in {"returns", "extract", "done", "raised"}

LoopFinished == pc \in {"done", "raised"} \/ (pc = "extract" /\ i = Len(data))

Bars == 1..Len(data)

\* the position before bar b, Flat before the first bar
PositionBefore(b) == IF b = 1 THEN Flat ELSE position[b - 1]

EntryBar(b) == PositionBefore(b) = Flat /\ position[b] = Long

ExitBar(b) == PositionBefore(b) = Long /\ position[b] = Flat

RECURSIVE FoldPosition(_, _)
\* the fold over the first m signals, from Flat: Enter while Flat gives Long,
\* Exit while Long gives Flat, every other pair keeps the state
FoldPosition(signals, m) ==
    IF m = 0 THEN Flat
    ELSE LET before == FoldPosition(signals, m - 1)
         IN  IF signals[m] = 1 /\ before = Flat THEN Long
             ELSE IF signals[m] = -1 /\ before = Long THEN Flat
             ELSE before

\* C1: the position series has the length and index of the signals and is
\* the fold of the signals from Flat (Enter while Flat -> Long, Exit while
\* Long -> Flat, anything else unchanged); the position at bar b is decided
\* by the signals at bars <= b alone.
C1_PositionIsFold ==
    PositionResolved =>
        /\ DOMAIN position = DOMAIN signal
        /\ \A b \in DOMAIN signal :
            /\ position[b] = FoldPosition(signal, b)
            /\ position[b] = Position(SubSeq(signal, 1, b))[b]

\* C1 witness: an Enter signal while Long (a no-op) and, later or earlier,
\* an Exit signal that takes the position from Long to Flat.
C1_Witness ==
    /\ PositionResolved
    /\ \E b \in DOMAIN signal : signal[b] = 1 /\ PositionBefore(b) = Long
    /\ \E b \in DOMAIN signal : signal[b] = -1 /\ ExitBar(b)

\* the strategy returns and the equity curve run computes for a price series
StratRetOf(closes) ==
    StratRet(PctChange(closes), Position(Signals(closes, params)), fee)

\* the price series with the close of bar j replaced by x
Mutated(closes, j, x) == [closes EXCEPT ![j] = x]

\* C2: no lookahead.  Replacing the close of any bar j by any other price
\* changes neither the strategy return nor the equity of any bar k < j (so
\* two series that agree on the bars up to b, which differ by such
\* replacements at bars after b, have the same returns and equity up to
\* b); and the return of bar b is the bar's market return times the
\* position of bar b - 1, less the fee on a position change.
C2_NoLookahead ==
    pc = "returns" =>
        /\ \A j \in Bars, x \in Closes :
            LET otherRet == StratRetOf(Mutated(data, j, x))
                otherCum == CumRet(otherRet)
            IN  \A k \in 1..(j - 1) :
                    /\ otherRet[k] = strat_ret[k]
                    /\ otherCum[k] = cum_ret[k]
        /\ \A b \in Bars \ {1} :
            strat_ret[b] =
                FSub(FMul(Num(data[b] - data[b - 1], data[b - 1]), position[b - 1]),
                     FMul(fee, FAbs(FSub(position[b], position[b - 1]))))

\* C2 witness: the position is opened on a bar whose market return is not
\* zero, and the bar earns nothing but the fee.
C2_Witness ==
    /\ pc = "returns"
    /\ \E b \in Bars \ {1} :
        /\ EntryBar(b)
        /\ data[b] # data[b - 1]
        /\ b < Len(data)
        /\ strat_ret[b] = FNeg(fee)

\* the trades recorded so far by the loop, or returned in the result
TradesSoFar == IF pc = "done" THEN result[1].trades ELSE loop.trades_list

\* C3: every trade record has pnl = (exit_price / entry_price - 1 - 2 fee)
\* * 100, its entry price and date are those of the bar on which the
\* position went Flat -> Long, its exit price and date those of the bar on
\* which it went Long -> Flat.
C3_TradePnl ==
    pc \in {"extract", "done"} =>
        \A t \in DOMAIN TradesSoFar :
            LET tr == TradesSoFar[t]
                e == tr.entry_date
                x == tr.exit_date
            IN  /\ e \in Bars /\ x \in Bars
                /\ EntryBar(e)
                /\ ExitBar(x)
                /\ tr.entry_price = IntVal(data[e])
                /\ tr.exit_price = IntVal(data[x])
                /\ tr.pnl =
                    Num(100 * (data[x] * fee.d - data[e] * fee.d - 2 * fee.n * data[e]),
                        data[e] * fee.d)

\* C3 witness: a trade is returned by a run that charges a fee.
C3_Witness ==
    /\ pc = "done"
    /\ Len(result[1].trades) > 0
    /\ fee # Zero

\* the fee deducted from the strategy return of bar b: what the return
\* falls short of the market return earned by the previous position
FeeDeducted(b) ==
    FSub(Fillna(FMul(market_ret[b], PositionBefore(b)), Zero),
         Fillna(strat_ret[b], Zero))

\* C4 (the claim as stated): the fee is deducted once on every bar on which
\* the position changes, the position before the first bar being Flat, and
\* on no other bar; so every closed trade has a fee on its entry bar and a
\* fee on its exit bar, also when the entry is on the first bar.
C4_FeeOnEveryTransition ==
    ReturnsComputed =>
        \A b \in Bars :
            FeeDeducted(b) = (IF EntryBar(b) \/ ExitBar(b) THEN fee ELSE Zero)

\* C5: cum_ret[b] = cum_ret[b - 1] * (1 + strategyReturn[b]) for every bar
\* after the first, with strategyReturn[b] = marketReturn[b] * position[b-1]
\* - fee * |position[b] - position[b-1]| and a missing return taken as 0.
C5_EquityConsistent ==
    ReturnsComputed =>
        \A b \in Bars \ {1} :
            LET marketReturn == Num(data[b] - data[b - 1], data[b - 1])
                strategyReturn ==
                    FSub(FMul(marketReturn, position[b - 1]),
                         FMul(fee, FAbs(FSub(position[b], position[b - 1]))))
                curve == IF pc = "done" THEN result[1].cumulative_returns ELSE cum_ret
            IN  curve[b] = FMul(curve[b - 1], FAdd(One, Fillna(strategyReturn, Zero)))

\* C5 witness: a returned curve with a bar that earns a market return while
\* Long and pays a fee for leaving the position.
C5_Witness ==
    /\ pc = "done"
    /\ fee # Zero
    /\ \E b \in Bars \ {1} :
        /\ ExitBar(b)
        /\ data[b] # data[b - 1]
        /\ result[1].cumulative_returns[b] # result[1].cumulative_returns[b - 1]

\* C6: for a non-empty price series the equity curve has one entry per bar
\* of the input and its first entry is exactly 1.0, whatever the parameters
\* and the fee, also when the first bar is an Enter bar and the fee is > 0.
C6_CurveLengthAndBase ==
    /\ (ReturnsComputed /\ Len(data) > 0) =>
        /\ DOMAIN cum_ret = DOMAIN data
        /\ cum_ret[1] = One
    /\ pc = "done" =>
        /\ DOMAIN result[1].cumulative_returns = DOMAIN data
        /\ result[1].cumulative_returns[1] = One

\* C6 witness: a returned curve of a run whose first bar is an Enter bar,
\* with a fee.
C6_Witness ==
    /\ pc = "done"
    /\ Len(data) > 1
    /\ signal[1] = 1
    /\ position[1] = Long
    /\ fee # Zero

\* the bar of the last entry into the position
LastEntryBar == CHOOSE b \in Bars : EntryBar(b) /\ \A c \in Bars : EntryBar(c) => c <= b

\* the trade list of run on the first m bars of the input
TradesOfPrefix(m) ==
    LET closes == SubSeq(data, 1, m)
    IN  ExtractUpTo(Signals(closes, params), closes, fee, m).trades_list

\* C7: only round trips are recorded.  The number of trade records is the
\* number of Long -> Flat transitions, and when the position is still Long
\* at the end of the series the trade list is that of the series truncated
\* just before the bar of that last entry.
C7_OpenPositionExcluded ==
    LoopFinished =>
        /\ Len(TradesSoFar) = Cardinality({b \in Bars : ExitBar(b)})
        /\ (Len(data) > 0 /\ position[Len(data)] = Long) =>
            TradesSoFar = TradesOfPrefix(LastEntryBar - 1)

\* C7 witness: a run returns with a closed trade and a position opened
\* after it that is still Long on the last bar.
C7_Witness ==
    /\ pc = "done"
    /\ position[Len(data)] = Long
    /\ Len(result[1].trades) > 0
    /\ LastEntryBar > result[1].trades[1].exit_date

C9_DrawdownBound ==
    pc = "done" =>
        /\ FLe(IntVal(-100), result[1].metrics.max_drawdown)
        /\ FLe(result[1].metrics.max_drawdown, Zero)
        /\ \A b \in Bars :
            /\ FLe(Zero, Cumulative(strat_ret)[b])
            /\ FLe(One, ExpandingMax(Cumulative(strat_ret))[b])

\* C10 (the claim as stated): every value of the metrics mapping is a
\* finite number, never NaN.
C10_MetricsFinite ==
    pc = "done" =>
        LET m == result[1].metrics
        IN  /\ IsNum(m.total_return)
            /\ m.annual_return # "nan"
            /\ m.annual_volatility # "nan"
            /\ m.sharpe_ratio # "nan"
            /\ IsNum(m.max_drawdown)
            /\ m.total_trades \in Nat
            /\ IsNum(m.win_rate)

\* C11: a run on a single-bar series does not raise and returns
\* total_return = 0 with years = 1/252, a finite annual_return computed
\* from the one-point curve (1 ** 252 - 1 = 0), no trades and the
\* one-element equity curve [1.0].
C11_SingleBar ==
    Len(data) = 1 =>
        /\ pc # "raised"
        /\ pc = "done" =>
            /\ result[1].metrics.total_return = Zero
            /\ Years(strat_ret) = Num(1, TradingDays)
            /\ result[1].metrics.annual_return = "zero"
            /\ result[1].metrics.total_trades = 0
            /\ result[1].trades = << >>
            /\ result[1].trade_returns = << >>
            /\ result[1].cumulative_returns = << One >>

\* C11 witness: a single-bar run has returned, its only bar an Enter bar.
C11_Witness ==
    /\ pc = "done"
    /\ Len(data) = 1
    /\ signal[1] = 1
    /\ fee # Zero

\* the columns run computes
ComputedColumns == SignalColumns \cup {"position"} \cup ReturnColumns

\* the seven metrics of a result are all zero
AllMetricsZero(m) ==
    /\ m.total_return = Zero
    /\ m.annual_return = "zero"
    /\ m.annual_volatility = "zero"
    /\ m.sharpe_ratio = "zero"
    /\ m.max_drawdown = Zero
    /\ m.total_trades = 0
    /\ m.win_rate = Zero

\* C12: with buyLevel = 0.0 and sellLevel = 1.0 no bar of a series of
\* positive prices produces a signal: the position is Flat on every bar,
\* the trade list is empty, the equity curve is 1.0 on every bar and every
\* metric is 0.
C12_NoSignalAllZero ==
    (buy_level(params) = Level(0) /\ sell_level(params) = Level(10)) =>
        /\ pc # "start" => \A b \in Bars : signal[b] = 0
        /\ PositionResolved => \A b \in Bars : position[b] = Flat
        /\ ReturnsComputed => \A b \in Bars : cum_ret[b] = One
        /\ pc = "done" =>
            /\ result[1].trades = << >>
            /\ AllMetricsZero(result[1].metrics)

\* the power of ten with as many digits as the positive close p
Magnitude(p) == CHOOSE m \in {Pow10(e) : e \in 0..9} : p \div m \in 1..9

\* the fractional part of p / 10^floor(log10 p), in tenths of the magnitude
FracIndicator(p) == Num(p % Magnitude(p), Magnitude(p))

\* the indicator of every bar lies in [0, 1), and run raises on no
\* non-empty series
IndicatorInUnitInterval ==
    /\ pc = "raised" => Len(data) = 0
    /\ \A b \in Bars :
        FLe(Zero, FracIndicator(data[b])) /\ FLt(FracIndicator(data[b]), One)

\* C14 (as the code has it): the indicator of a bar with close p > 0 is
\* the fractional part of p / 10^floor(log10 p) and lies in [0, 1); the
\* signal is Exit whenever indicator > sellLevel, otherwise Enter if
\* indicator < buyLevel, otherwise None, also when the thresholds are equal
\* or overlap, and run raises on no non-empty series.
C14_ExitBeforeEnter ==
    /\ IndicatorInUnitInterval
    /\ pc # "start" =>
        \A b \in Bars :
            signal[b] =
                IF FGt(FracIndicator(data[b]), sell_level(params)) THEN -1
                ELSE IF FLt(FracIndicator(data[b]), buy_level(params)) THEN 1
                ELSE 0

\* C14 as claimed: Enter whenever indicator < buyLevel, otherwise Exit if
\* indicator > sellLevel, otherwise None.
C14_EnterBeforeExit ==
    /\ IndicatorInUnitInterval
    /\ pc # "start" =>
        \A b \in Bars :
            signal[b] =
                IF FLt(FracIndicator(data[b]), buy_level(params)) THEN 1
                ELSE IF FGt(FracIndicator(data[b]), sell_level(params)) THEN -1
                ELSE 0

\* C14 witness: run has returned with overlapping thresholds on a series
\* with a bar whose indicator lies strictly between them, an Exit bar.
C14_Witness ==
    /\ pc = "done"
    /\ FLt(sell_level(params), buy_level(params))
    /\ \E b \in Bars :
        /\ FGt(FracIndicator(data[b]), sell_level(params))
        /\ FLt(FracIndicator(data[b]), buy_level(params))
        /\ signal[b] = -1

\* C15: a series with a close <= 0 makes run fail with a DataError before
\* any signal is computed and without a result.
C15_NonPositiveCloseFails ==
    (\E b \in Bars : data[b] <= 0) =>
        /\ signal = << >>
        /\ result = << >>
        /\ pc = "raised" => error = "DataError"

\* C16: on an empty series, or a frame without the Close column, run fails
\* with a typed data error and returns no result.
C16_TypedDataError ==
    (Len(data) = 0 \/ "Close" \notin frames["data"]) =>
        /\ pc # "done"
        /\ result = << >>
        /\ pc = "raised" => error = "DataError"

\* both levels are present and lie in [0, 1]
ParamsValid(p) ==
    \A key \in {"sr_buy", "sr_sell"} :
        /\ key \in DOMAIN p
        /\ FLe(Zero, p[key])
        /\ FLe(p[key], One)

\* C17: with sr_buy or sr_sell absent or outside [0, 1], run raises a
\* ConfigError before any signal, position, return or trade is computed
\* and returns no result.
C17_ConfigErrorFirst ==
    ~ParamsValid(params) =>
        /\ signal = << >>
        /\ position = << >>
        /\ strat_ret = << >>
        /\ loop = LoopInit
        /\ result = << >>
        /\ pc = "raised" => error = "ConfigError"

\* C18: no step of run, returning or raising, changes the caller's price
\* frame (its columns and Close values) or the params mapping.
C18_InputsUnchanged ==
    [][/\ data' = data
       /\ params' = params
       /\ frames'["data"] = frames["data"]]_vars

\* C18 witness: run has returned, every computed column is in df and none
\* is in the caller's frame.
C18_Witness ==
    /\ pc = "done"
    /\ ComputedColumns \subseteq frames[df]
    /\ frames["data"] = OHLCV

\* C19: run writes nothing to the UI.
C19_NoOutput == st_written = 0

\* the worked example is the input of the run
InScenario == data = ScenarioCloses /\ params = ScenarioParams /\ fee = Zero

\* in the worked example the bars with a fractional indicator > 0 are the
\* Exit bars and the bars with indicator 0 the Enter bars
ScenarioSignals ==
    [b \in DOMAIN ScenarioCloses |->
        IF FGt(FracIndicator(ScenarioCloses[b]), Zero) THEN -1 ELSE 1]

RECURSIVE LaggedProduct(_, _, _)
\* the product over the bars 2..m of 1 + the period return of the bar times
\* the position of the bar before
LaggedProduct(closes, signals, m) ==
    IF m <= 1 THEN One
    ELSE FMul(LaggedProduct(closes, signals, m - 1),
              FAdd(One, FMul(Num(closes[m] - closes[m - 1], closes[m - 1]),
                             FoldPosition(signals, m - 1))))

\* the signals and the final equity of the worked example
ScenarioSignalsAndEquity ==
    /\ pc # "start" => signal = ScenarioSignals
    /\ pc = "done" =>
        /\ Last(result[1].cumulative_returns) =
              LaggedProduct(ScenarioCloses, ScenarioSignals, Len(ScenarioCloses))
        /\ Last(result[1].cumulative_returns) = Num(399, 400)

\* the bars a closed trade was held: from its entry bar to its exit bar
BarsHeld(trade) == trade.exit_date - trade.entry_date

\* C13 (as the code has it): on [100, 90, 95, 100, 105] with buyLevel 1.0,
\* sellLevel 0.0 and fee 0 the bars with a fractional indicator > 0 are Exit
\* bars and the others Enter bars, the run produces two closed trades, the
\* first held for two bars (bar 1 to bar 3, the Enter of bar 2 being a
\* no-op) and the second for one bar (bar 4 to bar 5), and the last equity
\* is the product of 1 + each of the four period returns times the
\* previous bar's position, 0.9975.
C13_TwoTradesLaggedEquity ==
    InScenario =>
        /\ ScenarioSignalsAndEquity
        /\ pc = "done" =>
            /\ Len(result[1].trades) = 2
            /\ result[1].trades[1].entry_date = 1
            /\ result[1].trades[1].exit_date = 3
            /\ result[1].trades[2].entry_date = 4
            /\ result[1].trades[2].exit_date = 5

\* C13 as claimed: several closed trades, each lasting a single bar.
C13_SingleBarTrades ==
    InScenario =>
        /\ ScenarioSignalsAndEquity
        /\ pc = "done" =>
            /\ Len(result[1].trades) > 1
            /\ \A t \in DOMAIN result[1].trades : BarsHeld(result[1].trades[t]) = 1

\* C13 witness: the run of the worked example has returned its two trades.
C13_Witness ==
    /\ InScenario
    /\ pc = "done"
    /\ Len(result[1].trades) = 2
    /\ result[1].cumulative_returns # [b \in DOMAIN ScenarioCloses |-> One]

\* the parameter sets whose run returned in the last batch
RanInBatch == 1..(calc.next - 1)

DatesValidated == validated # NotValidated

\* the start is not before the end, as instants (a date is its midnight)
NotBefore == Hours(start_date) >= Hours(end_date)

\* the range spans fewer than 30 days
TooShort == Hours(end_date) - Hours(start_date) < MinRangeDays * HoursPerDay

\* the end lies after now
InFuture == Hours(end_date) > Hours(Now)

\* the first error that applies, in the order of the checks
FirstError ==
    IF NotBefore THEN "Start date must be before end date"
    ELSE IF TooShort THEN "Date range must be at least 30 days"
    ELSE IF InFuture THEN "End date cannot be in the future"
    ELSE "None"

\* C21: validate_date_range(start, end) returns (start, end, error) with
\* the dates unchanged and error the first that applies of: start >= end,
\* a range of fewer than 30 days, an end in the future, else None.
C21_FirstErrorInOrder ==
    DatesValidated => validated = Returned(<< start_date, end_date, FirstError >>)

\* C22: for dates, datetimes and a mix of the two validate_date_range
\* returns a tuple without raising, with error None for a past range of at
\* least 30 days and 'End date cannot be in the future' for a date-typed
\* end after today.
C22_AcceptsDatesAndDatetimes ==
    DatesValidated =>
        /\ validated.raised = ""
        /\ (~NotBefore /\ ~TooShort /\ ~InFuture) => validated.value[3] = "None"
        /\ (~NotBefore /\ ~TooShort /\ end_date.type = "date" /\ end_date.day > Today) =>
              validated.value[3] = "End date cannot be in the future"

RECURSIVE Wins(_)
\* the number of returns of a list of trade returns that are strictly > 0
Wins(returns) ==
    IF Len(returns) = 0 THEN 0
    ELSE Wins(SubSeq(returns, 1, Len(returns) - 1))
         + (IF returns[Len(returns)].n > 0 THEN 1 ELSE 0)

\* C23: in every result total_trades is the number of closed trade records
\* and the length of trade_returns (an empty list without trades), win_rate
\* is 100 * (trades with pnl > 0) / total_trades, or 0 without trades, so
\* total_trades >= 0 and win_rate is in [0, 100].
C23_TradeStatistics ==
    pc = "done" =>
        LET m == result[1].metrics
            n == Len(result[1].trades)
        IN  /\ m.total_trades = n
            /\ Len(result[1].trade_returns) = n
            /\ \A t \in 1..n : result[1].trade_returns[t] = result[1].trades[t].pnl
            /\ m.win_rate = IF n > 0 THEN Num(100 * Wins(result[1].trade_returns), n)
                            ELSE Zero
            /\ m.total_trades >= 0
            /\ FLe(Zero, m.win_rate) /\ FLe(m.win_rate, IntVal(100))

\* C23 witness: a result with two closed trades, one won and one lost.
C23_Witness ==
    /\ pc = "done"
    /\ result[1].metrics.total_trades = 2
    /\ result[1].metrics.win_rate = IntVal(50)

\* the bars at which the trade-extraction loop has changed its position so
\* far: the entries and exits of its trades and the entry it still holds
ExtractorBars ==
    {loop.trades_list[t].entry_date : t \in DOMAIN loop.trades_list}
    \cup {loop.trades_list[t].exit_date : t \in DOMAIN loop.trades_list}
    \cup (IF loop.position = 1 THEN {loop.entry_date} ELSE {})

\* C24: the two position computations of run agree.  After the loop has
\* processed bar i its local position is the forward-filled position of bar
\* i, and the bars after the first on which the return series carries a fee
\* are exactly the entry and exit bars the loop has seen.
C24_PositionsAgree ==
    pc \in {"extract", "done"} =>
        /\ i = 0 => loop.position = 0
        /\ i > 0 => IntVal(loop.position) = position[i]
        /\ \A b \in 2..i :
            FeeDeducted(b) = (IF b \in ExtractorBars THEN fee ELSE Zero)

\* C24 witness: the loop has ended on a series with an entry, a None bar
\* while Long and an exit, with a fee.
C24_Witness ==
    /\ pc = "done"
    /\ fee # Zero
    /\ Len(loop.trades_list) > 0
    /\ \E b \in Bars : signal[b] = 0 /\ position[b] = Long

\* C25: the trade list is time-ordered and non-overlapping.  Every trade is
\* entered strictly before it is exited, the exit of a trade is strictly
\* before the entry of the next, and no bar is the exit of one trade and
\* the entry of another.
C25_TradesOrdered ==
    pc \in {"extract", "done"} =>
        /\ \A t \in DOMAIN TradesSoFar :
            TradesSoFar[t].entry_date < TradesSoFar[t].exit_date
        /\ \A t \in DOMAIN TradesSoFar \ {1} :
            TradesSoFar[t - 1].exit_date < TradesSoFar[t].entry_date
        /\ \A t, u \in DOMAIN TradesSoFar :
            TradesSoFar[t].exit_date # TradesSoFar[u].entry_date

\* C25 witness: a run has returned two trades, the second entered on the
\* bar right after the exit of the first.
C25_Witness ==
    /\ pc = "done"
    /\ Len(result[1].trades) = 2
    /\ result[1].trades[2].entry_date = result[1].trades[1].exit_date + 1

RECURSIVE RatioProduct(_, _)
\* the product of exit_price / entry_price over the first m trades
RatioProduct(trades, m) ==
    IF m = 0 THEN One
    ELSE FMul(RatioProduct(trades, m - 1),
              FDiv(trades[m].exit_price, trades[m].entry_price))

RECURSIVE PnlProduct(_, _)
\* the product of 1 + pnl / 100 over the first m trade returns
PnlProduct(returns, m) ==
    IF m = 0 THEN One
    ELSE FMul(PnlProduct(returns, m - 1),
              FAdd(One, FDiv(returns[m], IntVal(100))))

\* C26: with fee = 0 the equity at every exit bar is the product of the
\* exit / entry ratios of the trades closed so far, the equity does not
\* change on a bar whose previous bar is Flat, and when the position is
\* Flat on the last bar the final equity is the product over all trades of
\* exit_price / entry_price, which is the product of 1 + pnl / 100.
C26_EquityIsTradeProduct ==
    (pc = "done" /\ fee = Zero) =>
        LET curve == result[1].cumulative_returns
            trades == result[1].trades
        IN  /\ \A t \in DOMAIN trades :
                curve[trades[t].exit_date] = RatioProduct(trades, t)
            /\ \A b \in Bars \ {1} :
                position[b - 1] = Flat => curve[b] = curve[b - 1]
            /\ position[Len(data)] = Flat =>
                /\ Last(curve) = RatioProduct(trades, Len(trades))
                /\ Last(curve) = PnlProduct(result[1].trade_returns, Len(trades))

\* C26 witness: a run without fee has returned Flat, with two trades and a
\* final equity other than 1.
C26_Witness ==
    /\ pc = "done"
    /\ fee = Zero
    /\ Len(result[1].trades) = 2
    /\ position[Len(data)] = Flat
    /\ Last(result[1].cumulative_returns) # One

\* the list without its element at idx
WithoutIndex(list, idx) ==
    [k \in 1..(Len(list) - 1) |-> IF k < idx THEN list[k] ELSE list[k + 1]]

Stored ==
    << session_state.results, session_state.benchmark, session_state.data,
       session_state.ticker, session_state.calculation_done >>

\* the Calculate handler has ended without storing
EndedWithoutStore == calc.outcome \in {"invalid", "crashed", "fetch_failed", "aborted"}

\* the stages of the handler follow validate -> fetch -> run, and what is
\* stored holds a result for every configured parameter set
CalculateStages ==
    /\ calc.pc \in {"fetch", "running"} =>
        validated = Returned(<< start_date, end_date, "None" >>)
    /\ calc.pc = "running" =>
        /\ data \in PriceHistories
        /\ DOMAIN calc.all_results =
              {strategy_name(param_sets[k]) : k \in 1..(calc.next - 1)}
    /\ session_state.calculation_done =>
        DOMAIN session_state.results =
            {strategy_name(param_sets[k]) : k \in DOMAIN param_sets}

\* a step of the handler that ends in a validation error or an exception
\* fetches nothing new on a validation failure and never writes the stored
\* fields; these are written only by the step that follows the last run
CalculateSteps ==
    /\ (calc.pc = "idle" /\ calc'.outcome \in {"invalid", "crashed"}) =>
        data' = data /\ result' = result
    /\ (calc'.pc = "idle" /\ EndedWithoutStore') => Stored' = Stored
    /\ Stored' # Stored =>
        /\ calc.pc = "running"
        /\ calc.next = Len(param_sets) + 1
        /\ Stored' = << calc.all_results, calc.benchmark, data, calc.ticker, TRUE >>

\* C28: on a Calculate click the steps occur in the order validate ->
\* fetch -> run every parameter set -> store.  A validation error means no
\* fetch and no run; results, benchmark, data, ticker and calculation_done
\* are written only after all runs have returned, so a validation failure
\* or an exception of the fetch or of a run leaves what was stored before
\* unchanged, and no partly filled result set is stored.
C28_StoreOnlyAfterAllRuns == []CalculateStages /\ [][CalculateSteps]_vars

\* C28 witness: a batch on another price history was aborted after its
\* first run, and the results stored by an earlier batch are still there.
C28_Witness ==
    /\ calc.outcome = "aborted"
    /\ calc.next > 1
    /\ session_state.calculation_done
    /\ session_state.data # data

FallbackCloses == {12, 135, 165, 18}

FallbackDataSets == SeqsUpTo(FallbackCloses, MaxLen)

FallbackParamSets ==
    { [sr_sell |-> Level(7), name |-> "NoBuyLevel"],
      [sr_buy |-> Level(3), name |-> "NoSellLevel"],
      [name |-> "NoLevels"] }

FallbackInit == InitWith(FallbackDataSets, FallbackParamSets, {fee_decimal(0)})

FallbackSpec == FallbackInit /\ [][Next]_vars

\* params with default_params' value supplied for each absent sr_ key
WithDefaultLevels(p) ==
    [key \in DOMAIN p \cup {"sr_buy", "sr_sell"} |->
        IF key \in DOMAIN p THEN p[key] ELSE default_params[key]]

====
